---- MODULE Spec2Model ----
(***************************************************************************)
(* A model of NewAccount.py: class Account (balance, transaction log,      *)
(* operator overloads, the iterator protocol) and the context manager      *)
(* TransactionWriter (the passbook file).                                  *)
(*                                                                         *)
(* Amounts and balances are whole numbers (Python ints); Python values are *)
(* written as the strings "True", "False", "None" so that a method that    *)
(* returns nothing can be told from one that returns a bool.               *)
(***************************************************************************)
EXTENDS Integers, Sequences, FiniteSets, TLC

VARIABLES
    account_number,  \* the class attribute Account.account_number
    accounts,        \* the Account objects constructed so far, by variable name
    opening,         \* history: the balance each account was constructed with
    ret,             \* the last call: method, receiver, arguments, result, stdout
    tw,              \* the TransactionWriter object of the with statement
    passbook,        \* the file object TransactionWriter.__enter__ opened
    disk,            \* the lines of the passbook file on disk
    loops            \* the for statements running over accounts

vars == <<account_number, accounts, opening, ret, tw, passbook, disk, loops>>

(***************************************************************************)
(* Bounds and input sets                                                   *)
(***************************************************************************)
MaxLog == 2          \* most transactions recorded in a run, over all accounts
MaxLines == 3        \* most lines the passbook file holds
MaxSeen == 2         \* most records one for statement is followed through

Objs == {"accountA", "accountB"}                          \* the driver's two accounts
Names == [accountA |-> "Guido", accountB |-> "Meghna"]    \* and their holders
Amounts == {-1, 0, 1}         \* amounts passed to deposit and withdraw
Balances == {-1, 1}           \* balances passed to the constructor (none is refused)
Modes == {"w", "a"}           \* modes passed to TransactionWriter
Loops == {"outer", "inner"}   \* for statements that may run at once (nested loops)

(***************************************************************************)
(* Account numbers: 328710100001 does not fit a 32-bit integer, so a       *)
(* number is kept as two decimal limbs hi * 10^6 + lo.                     *)
(***************************************************************************)
Limb == 10 ^ 6
AccountNumberHi == 328710
AccountNumberLo == 100001

FirstAccountNumber == [hi |-> AccountNumberHi, lo |-> AccountNumberLo]

NumAdd(n, k) ==
    [hi |-> n.hi + ((n.lo + k) \div Limb), lo |-> (n.lo + k) % Limb]

NumLess(m, n) == m.hi < n.hi \/ (m.hi = n.hi /\ m.lo < n.lo)

(***************************************************************************)
(* class Account                                                           *)
(***************************************************************************)
\* __len__
len(self) == Len(self.transactions_log)

\* __init__ (the increment of Account.account_number is in Construct)
init(name, balance, number) ==
    LET fresh == [holders_name |-> name, balance |-> balance,
                  transactions_log |-> <<>>, acc_number |-> number,
                  pos |-> 0, max |-> 0]
    IN  [fresh EXCEPT !.max = len(fresh)]

\* deposit, had it forgotten the log entry
deposit_Unlogged(self, amount, stamp) ==
    IF amount <= 0
    THEN [self |-> self, val |-> "False"]
    ELSE [self |-> [self EXCEPT !.balance = @ + amount], val |-> "True"]

\* deposit, had its check been amount < 0
deposit_ZeroAccepted(self, amount, stamp) ==
    IF amount < 0
    THEN [self |-> self, val |-> "False"]
    ELSE LET balance == self.balance + amount
         IN  [self |-> [self EXCEPT
                  !.balance = balance,
                  !.transactions_log =
                      Append(@, <<"CREDIT", stamp, balance - amount, amount, balance>>)],
              val |-> "True"]

deposit(self, amount, stamp) ==
    IF amount <= 0
    THEN [self |-> self, val |-> "False"]
    ELSE LET balance == self.balance + amount
         IN  [self |-> [self EXCEPT
                  !.balance = balance,
                  !.transactions_log =
                      Append(@, <<"CREDIT", stamp, balance - amount, amount, balance>>)],
              val |-> "True"]

\* withdraw, had its check been balance - amount > 0
withdraw_Strict(self, amount, stamp) ==
    IF self.balance - amount > 0
    THEN LET balance == self.balance - amount
         IN  [self |-> [self EXCEPT
                  !.balance = balance,
                  !.transactions_log =
                      Append(@, <<"DEBIT ", stamp, balance + amount, -amount, balance>>)],
              val |-> "True"]
    ELSE [self |-> self, val |-> "False"]

withdraw(self, amount, stamp) ==
    IF self.balance - amount >= 0
    THEN LET balance == self.balance - amount
         IN  [self |-> [self EXCEPT
                  !.balance = balance,
                  !.transactions_log =
                      Append(@, <<"DEBIT ", stamp, balance + amount, -amount, balance>>)],
              val |-> "True"]
    ELSE [self |-> self, val |-> "False"]

print_cust_details(self) ==
    << <<"Account Number:  ", self.acc_number>>,
       <<"Holder's Name:   ", self.holders_name>>,
       <<"Balance:          Rs.", self.balance>> >>

\* __lt__ and __gt__ print a line and fall off the end: they return None
lt(self, other) ==
    [val |-> "None",
     out |-> IF self.balance < other.balance
             THEN << <<self.holders_name, "'s balance is lesser.">> >>
             ELSE << <<other.holders_name, "'s balance is lesser.">> >>]

gt(self, other) ==
    [val |-> "None",
     out |-> IF self.balance > other.balance
             THEN << <<self.holders_name, "'s balance is greater.">> >>
             ELSE << <<other.holders_name, "'s balance is greater.">> >>]

le(self, other) == IF self.balance <= other.balance THEN "True" ELSE "False"

ge(self, other) == IF self.balance >= other.balance THEN "True" ELSE "False"

eq(self, other) == IF self.acc_number = other.acc_number THEN "True" ELSE "False"

ne(self, other) == IF self.acc_number # other.acc_number THEN "True" ELSE "False"

str(self) ==
    <<"Account No.: ", self.acc_number, " of ", self.holders_name,
      " has Rs. ", self.balance>>

repr(self) ==
    <<"Account no. ", self.acc_number, ", owned by ", self.holders_name,
      " has a balance of Rs. ", self.balance>>

\* __getitem__: Python list indexing, negative positions count from the end
getitem(self, pos) ==
    LET n == Len(self.transactions_log)
    IN  IF 0 <= pos /\ pos < n
        THEN [exc |-> "None", val |-> self.transactions_log[pos + 1]]
        ELSE IF -n <= pos /\ pos < 0
        THEN [exc |-> "None", val |-> self.transactions_log[n + pos + 1]]
        ELSE [exc |-> "IndexError", val |-> "None"]

\* __iter__: the account is its own iterator
iter(self) == [self EXCEPT !.pos = 0, !.max = len(self)]

\* __next__, had it taken the record out of the log (list.pop(0))
next_Consuming(self) ==
    IF self.pos >= self.max
    THEN [self |-> self, exc |-> "StopIteration", val |-> "None"]
    ELSE [self |-> [self EXCEPT !.transactions_log = Tail(@), !.max = @ - 1],
          exc |-> "None", val |-> Head(self.transactions_log)]

\* __next__
next(self) ==
    IF self.pos >= self.max
    THEN [self |-> self, exc |-> "StopIteration", val |-> "None"]
    ELSE [self |-> [self EXCEPT !.pos = @ + 1], exc |-> "None",
          val |-> self.transactions_log[self.pos + 1]]

RECURSIVE Reverse(_)
Reverse(s) == IF s = <<>> THEN <<>> ELSE Append(Reverse(Tail(s)), Head(s))

\* __reversed__
reversed(self) == Reverse(self.transactions_log)

(***************************************************************************)
(* Initial state: the module has been imported, nothing constructed yet    *)
(***************************************************************************)
NoCall == [op |-> "none", self |-> "none", args |-> <<>>, val |-> "None",
           exc |-> "None", out |-> <<>>]

Call(op, o, args, val, exc, out) ==
    [op |-> op, self |-> o, args |-> args, val |-> val, exc |-> exc, out |-> out]

NoWriter == [state |-> "none", file |-> "None", file_name |-> "None",
             file_mode |-> "None", over |-> "none", exc |-> "None"]

NoFile == [opened |-> FALSE, closed |-> FALSE]

NoLoop == [over |-> "none", state |-> "idle", began |-> <<>>, seen |-> <<>>]

Init ==
    /\ account_number = FirstAccountNumber
    /\ accounts = <<>>
    /\ opening = <<>>
    /\ ret = NoCall
    /\ tw = NoWriter
    /\ passbook = NoFile
    /\ disk = <<>>
    /\ loops = [l \in Loops |-> NoLoop]

Constructed == DOMAIN accounts

\* the number of transactions recorded so far, over all accounts
Recorded == LET n[S \in SUBSET Objs] ==
                    IF S = {} THEN 0
                    ELSE LET o == CHOOSE x \in S : TRUE
                         IN  n[S \ {o}] + Len(accounts[o].transactions_log)
            IN  n[Constructed]

\* a call that appends to a log is explored while fewer than MaxLog are recorded
WithinBounds(before, after) ==
    after.transactions_log # before.transactions_log => Recorded < MaxLog

\* datetime.datetime.now().strftime("%d %B %Y %I:%M:%S %p"): a run takes less
\* than a second, so every call reads the same time
strftime == "10 June 2020 09:00:00 AM"

(***************************************************************************)
(* Actions of class Account                                                *)
(***************************************************************************)
\* no call is in progress: the caller is between two statements
Idle == ret = NoCall

\* the statement that made the call ends and its value is dropped
EndStatement ==
    /\ ret # NoCall
    /\ ret' = NoCall
    /\ UNCHANGED <<account_number, accounts, opening, tw, passbook, disk, loops>>

\* the constructor, had it left Account.account_number alone
Construct_NoIncrement(o, name, balance) ==
    /\ Idle
    /\ o \notin Constructed
    /\ accounts' = accounts @@ (o :> init(name, balance, account_number))
    /\ opening' = opening @@ (o :> balance)
    /\ ret' = Call("__init__", o, <<name, balance>>, "None", "None", <<>>)
    /\ UNCHANGED <<account_number, tw, passbook, disk, loops>>

Construct(o, name, balance) ==
    /\ Idle
    /\ o \notin Constructed
    /\ accounts' = accounts @@ (o :> init(name, balance, account_number))
    /\ opening' = opening @@ (o :> balance)
    /\ account_number' = NumAdd(account_number, 1)
    /\ ret' = Call("__init__", o, <<name, balance>>, "None", "None", <<>>)
    /\ UNCHANGED <<tw, passbook, disk, loops>>

GetNextAccountNumber ==
    /\ Idle
    /\ ret' = Call("get_next_account_number", "Account", <<>>,
                   NumAdd(account_number, 1), "None", <<>>)
    /\ UNCHANGED <<account_number, accounts, opening, tw, passbook, disk, loops>>

Deposit(o, amount) ==
    /\ Idle
    /\ o \in Constructed
    /\ LET r == deposit(accounts[o], amount, strftime)
       IN  /\ WithinBounds(accounts[o], r.self)
           /\ accounts' = [accounts EXCEPT ![o] = r.self]
           /\ ret' = Call("deposit", o, <<amount>>, r.val, "None", <<>>)
    /\ UNCHANGED <<account_number, opening, tw, passbook, disk, loops>>

Withdraw(o, amount) ==
    /\ Idle
    /\ o \in Constructed
    /\ LET r == withdraw(accounts[o], amount, strftime)
       IN  /\ WithinBounds(accounts[o], r.self)
           /\ accounts' = [accounts EXCEPT ![o] = r.self]
           /\ ret' = Call("withdraw", o, <<amount>>, r.val, "None", <<>>)
    /\ UNCHANGED <<account_number, opening, tw, passbook, disk, loops>>

\* __iadd__ drops deposit's result and returns self
IAdd(o, amount) ==
    /\ Idle
    /\ o \in Constructed
    /\ LET r == deposit(accounts[o], amount, strftime)
       IN  /\ WithinBounds(accounts[o], r.self)
           /\ accounts' = [accounts EXCEPT ![o] = r.self]
           /\ ret' = Call("__iadd__", o, <<amount>>, o, "None",
                          << <<"Depositing using dunder ...">> >>)
    /\ UNCHANGED <<account_number, opening, tw, passbook, disk, loops>>

\* __isub__ drops withdraw's result and returns self
ISub(o, amount) ==
    /\ Idle
    /\ o \in Constructed
    /\ LET r == withdraw(accounts[o], amount, strftime)
       IN  /\ WithinBounds(accounts[o], r.self)
           /\ accounts' = [accounts EXCEPT ![o] = r.self]
           /\ ret' = Call("__isub__", o, <<amount>>, o, "None",
                          << <<"Withdrawing using dunder ...">> >>)
    /\ UNCHANGED <<account_number, opening, tw, passbook, disk, loops>>

ReadOnly == UNCHANGED <<account_number, accounts, opening, tw, passbook, disk, loops>>

PrintCustDetails(o) ==
    /\ Idle
    /\ o \in Constructed
    /\ ret' = Call("print_cust_details", o, <<>>, "None", "None",
                   print_cust_details(accounts[o]))
    /\ ReadOnly

\* __call__
CallAccount(o) ==
    /\ Idle
    /\ o \in Constructed
    /\ ret' = Call("__call__", o, <<>>, "None", "None", print_cust_details(accounts[o]))
    /\ ReadOnly

Lt(o, p) ==
    /\ Idle
    /\ o \in Constructed /\ p \in Constructed
    /\ LET r == lt(accounts[o], accounts[p])
       IN  ret' = Call("__lt__", o, <<p>>, r.val, "None", r.out)
    /\ ReadOnly

Gt(o, p) ==
    /\ Idle
    /\ o \in Constructed /\ p \in Constructed
    /\ LET r == gt(accounts[o], accounts[p])
       IN  ret' = Call("__gt__", o, <<p>>, r.val, "None", r.out)
    /\ ReadOnly

Le(o, p) ==
    /\ Idle
    /\ o \in Constructed /\ p \in Constructed
    /\ ret' = Call("__le__", o, <<p>>, le(accounts[o], accounts[p]), "None", <<>>)
    /\ ReadOnly

Ge(o, p) ==
    /\ Idle
    /\ o \in Constructed /\ p \in Constructed
    /\ ret' = Call("__ge__", o, <<p>>, ge(accounts[o], accounts[p]), "None", <<>>)
    /\ ReadOnly

Eq(o, p) ==
    /\ Idle
    /\ o \in Constructed /\ p \in Constructed
    /\ ret' = Call("__eq__", o, <<p>>, eq(accounts[o], accounts[p]), "None", <<>>)
    /\ ReadOnly

Ne(o, p) ==
    /\ Idle
    /\ o \in Constructed /\ p \in Constructed
    /\ ret' = Call("__ne__", o, <<p>>, ne(accounts[o], accounts[p]), "None", <<>>)
    /\ ReadOnly

Str(o) ==
    /\ Idle
    /\ o \in Constructed
    /\ ret' = Call("__str__", o, <<>>, str(accounts[o]), "None", <<>>)
    /\ ReadOnly

Repr(o) ==
    /\ Idle
    /\ o \in Constructed
    /\ ret' = Call("__repr__", o, <<>>, repr(accounts[o]), "None", <<>>)
    /\ ReadOnly

LenAccount(o) ==
    /\ Idle
    /\ o \in Constructed
    /\ ret' = Call("__len__", o, <<>>, len(accounts[o]), "None", <<>>)
    /\ ReadOnly

GetItem(o, pos) ==
    /\ Idle
    /\ o \in Constructed
    /\ LET r == getitem(accounts[o], pos)
       IN  ret' = Call("__getitem__", o, <<pos>>, r.val, r.exc, <<>>)
    /\ ReadOnly

ReversedAccount(o) ==
    /\ Idle
    /\ o \in Constructed
    /\ ret' = Call("__reversed__", o, <<>>, reversed(accounts[o]), "None", <<>>)
    /\ ReadOnly

Iter(o) ==
    /\ Idle
    /\ o \in Constructed
    /\ accounts' = [accounts EXCEPT ![o] = iter(@)]
    /\ ret' = Call("__iter__", o, <<>>, o, "None", <<>>)
    /\ UNCHANGED <<account_number, opening, tw, passbook, disk, loops>>

NextItem(o) ==
    /\ Idle
    /\ o \in Constructed
    /\ LET r == next(accounts[o])
       IN  /\ accounts' = [accounts EXCEPT ![o] = r.self]
           /\ ret' = Call("__next__", o, <<>>, r.val, r.exc, <<>>)
    /\ UNCHANGED <<account_number, opening, tw, passbook, disk, loops>>

Positions == -(MaxLog + 1) .. MaxLog

Next ==
    \/ EndStatement
    \/ \E o \in Objs, balance \in Balances : Construct(o, Names[o], balance)
    \/ GetNextAccountNumber
    \/ \E o \in Objs, amount \in Amounts : Deposit(o, amount)
    \/ \E o \in Objs, amount \in Amounts : Withdraw(o, amount)
    \/ \E o \in Objs, amount \in Amounts : IAdd(o, amount)
    \/ \E o \in Objs, amount \in Amounts : ISub(o, amount)
    \/ \E o \in Objs : PrintCustDetails(o)
    \/ \E o \in Objs : CallAccount(o)
    \/ \E o \in Objs, p \in Objs : Lt(o, p)
    \/ \E o \in Objs, p \in Objs : Gt(o, p)
    \/ \E o \in Objs, p \in Objs : Le(o, p)
    \/ \E o \in Objs, p \in Objs : Ge(o, p)
    \/ \E o \in Objs, p \in Objs : Eq(o, p)
    \/ \E o \in Objs, p \in Objs : Ne(o, p)
    \/ \E o \in Objs : Str(o)
    \/ \E o \in Objs : Repr(o)
    \/ \E o \in Objs : LenAccount(o)
    \/ \E o \in Objs, pos \in Positions : GetItem(o, pos)
    \/ \E o \in Objs : ReversedAccount(o)
    \/ \E o \in Objs : Iter(o)
    \/ \E o \in Objs : NextItem(o)

Spec == Init /\ [][Next]_vars

(***************************************************************************)
(* for statements over accounts (driver lines 267-268): `for txn in a`     *)
(* calls iter(a) once and next(a) until it raises StopIteration            *)
(***************************************************************************)
ForBegin(l, o) ==
    /\ Idle
    /\ o \in Constructed
    /\ accounts' = [accounts EXCEPT ![o] = iter(@)]
    /\ loops' = [loops EXCEPT ![l] =
           [over |-> o, state |-> "running",
            began |-> accounts[o].transactions_log, seen |-> <<>>]]
    /\ UNCHANGED <<account_number, opening, ret, tw, passbook, disk>>

ForStep(l) ==
    /\ Idle
    /\ loops[l].state = "running"
    /\ LET o == loops[l].over
           r == next(accounts[o])
       IN  /\ r.exc = "None" => Len(loops[l].seen) < MaxSeen
           /\ accounts' = [accounts EXCEPT ![o] = r.self]
           /\ loops' = [loops EXCEPT ![l] =
                  IF r.exc = "StopIteration"
                  THEN [@ EXCEPT !.state = "done"]
                  ELSE [@ EXCEPT !.seen = Append(@, r.val)]]
    /\ UNCHANGED <<account_number, opening, ret, tw, passbook, disk>>

NextIter ==
    \/ EndStatement
    \/ \E o \in Objs, balance \in Balances : Construct(o, Names[o], balance)
    \/ \E o \in Objs, amount \in Amounts : Deposit(o, amount)
    \/ \E o \in Objs, amount \in Amounts : Withdraw(o, amount)
    \/ \E l \in Loops, o \in Objs : ForBegin(l, o)
    \/ \E l \in Loops : ForStep(l)

SpecIter == Init /\ [][NextIter]_vars

(***************************************************************************)
(* class TransactionWriter and the with statement of driver lines 281-284  *)
(***************************************************************************)
\* __init__
TransactionWriter(name, mode) ==
    [state |-> "init", file |-> "None", file_name |-> name, file_mode |-> mode,
     over |-> "none", exc |-> "None"]

\* __exit__: the file is closed only when the body raised nothing
exit(file, exc_type) ==
    IF exc_type = "None"
    THEN [file |-> [file EXCEPT !.closed = TRUE],
          out |-> << <<"File close successful!">> >>]
    ELSE [file |-> file,
          out |-> << <<"Something went wrong! ", exc_type>> >>]

NewWriter(mode) ==
    /\ Idle
    /\ tw.state \in {"none", "exited", "failed"}
    /\ tw' = TransactionWriter("passbookA.txt", mode)
    /\ passbook' = NoFile
    /\ UNCHANGED <<account_number, accounts, opening, ret, disk, loops>>

\* __enter__: open() truncates in mode "w", keeps the file in mode "a", and
\* may raise, in which case the body and __exit__ are not run
Enter(opens) ==
    /\ Idle
    /\ tw.state = "init"
    /\ IF opens
       THEN /\ passbook' = [opened |-> TRUE, closed |-> FALSE]
            /\ disk' = IF tw.file_mode = "w" THEN <<>> ELSE disk
            /\ tw' = [tw EXCEPT !.file = "passbook", !.state = "body"]
       ELSE /\ tw' = [tw EXCEPT !.state = "failed", !.exc = "OSError"]
            /\ UNCHANGED <<passbook, disk>>
    /\ UNCHANGED <<account_number, accounts, opening, ret, loops>>

\* the body: for txn in accountA
BodyIter(o) ==
    /\ Idle
    /\ tw.state = "body"
    /\ tw.over = "none"
    /\ o \in Constructed
    /\ accounts' = [accounts EXCEPT ![o] = iter(@)]
    /\ tw' = [tw EXCEPT !.over = o]
    /\ UNCHANGED <<account_number, opening, ret, passbook, disk, loops>>

\* the body: the next txn is written as one line, unless the iteration has
\* ended (the body is left normally) or write() raises
BodyNext(writes) ==
    /\ Idle
    /\ tw.state = "body"
    /\ tw.over # "none"
    /\ LET r == next(accounts[tw.over])
       IN  /\ accounts' = [accounts EXCEPT ![tw.over] = r.self]
           /\ IF r.exc = "StopIteration"
              THEN /\ tw' = [tw EXCEPT !.state = "leaving", !.exc = "None"]
                   /\ UNCHANGED disk
              ELSE IF writes
              THEN /\ Len(disk) < MaxLines
                   /\ disk' = Append(disk, r.val)
                   /\ UNCHANGED tw
              ELSE /\ tw' = [tw EXCEPT !.state = "leaving", !.exc = "OSError"]
                   /\ UNCHANGED disk
    /\ UNCHANGED <<account_number, opening, ret, passbook, loops>>

\* the with statement calls __exit__ with the exception the body raised
Exit ==
    /\ Idle
    /\ tw.state = "leaving"
    /\ LET r == exit(passbook, tw.exc)
       IN  /\ passbook' = r.file
           /\ ret' = Call("__exit__", "passbook", <<tw.exc>>, "None", "None", r.out)
    /\ tw' = [tw EXCEPT !.state = "exited"]
    /\ UNCHANGED <<account_number, accounts, opening, disk, loops>>

NextWriter ==
    \/ EndStatement
    \/ \E o \in Objs, balance \in Balances : Construct(o, Names[o], balance)
    \/ \E o \in Objs, amount \in Amounts : Deposit(o, amount)
    \/ \E o \in Objs, amount \in Amounts : Withdraw(o, amount)
    \/ \E mode \in Modes : NewWriter(mode)
    \/ \E opens \in BOOLEAN : Enter(opens)
    \/ \E o \in Objs : BodyIter(o)
    \/ \E writes \in BOOLEAN : BodyNext(writes)
    \/ Exit

SpecWriter == Init /\ [][NextWriter]_vars

(***************************************************************************)
(* Properties of class Account                                             *)
(***************************************************************************)
RECURSIVE SumSigned(_)
SumSigned(log) == IF log = <<>> THEN 0 ELSE Head(log)[4] + SumSigned(Tail(log))

Kinds(log) == {log[i][1] : i \in DOMAIN log}

IsPrefix(s, t) == Len(s) <= Len(t) /\ SubSeq(t, 1, Len(s)) = s

\* C1: the balance of every account equals the balance it was constructed
\* with plus the sum of the signed amounts of the records in its log.
BalanceIsOpeningPlusLog ==
    \A o \in Constructed :
        accounts[o].balance = opening[o] + SumSigned(accounts[o].transactions_log)

\* an account whose log holds a credit and a debit
BalanceIsOpeningPlusLogWitness ==
    \E o \in Constructed : Kinds(accounts[o].transactions_log) = {"CREDIT", "DEBIT "}

\* C2: the balance of an account is never negative.
BalanceNeverNegative == \A o \in Constructed : accounts[o].balance >= 0

\* C3: deposit(amount) with amount <= 0 returns False and changes neither the
\* balance nor the log (nor anything else of any account); += with such an
\* amount changes nothing either.
RejectedDepositChangesNothing ==
    [][(ret'.op \in {"deposit", "__iadd__"} /\ ret'.args[1] <= 0)
          => /\ accounts' = accounts
             /\ ret'.op = "deposit" => ret'.val = "False"]_vars

\* deposit(0) has just been refused
RejectedDepositWitness ==
    /\ ret.op = "deposit"
    /\ ret.args[1] = 0
    /\ ret.val = "False"

\* C4: withdraw(amount) with amount greater than the balance returns False and
\* changes nothing; in every other case it returns True, takes amount off the
\* balance and appends exactly one DEBIT record.
WithdrawContract ==
    [][ret'.op = "withdraw"
          => LET o == ret'.self
                 amount == ret'.args[1]
                 before == accounts[o]
                 after == accounts'[o]
                 n == Len(before.transactions_log)
             IN  /\ \A p \in Constructed \ {o} : accounts'[p] = accounts[p]
                 /\ IF amount > before.balance
                    THEN ret'.val = "False" /\ after = before
                    ELSE /\ ret'.val = "True"
                         /\ after.balance = before.balance - amount
                         /\ Len(after.transactions_log) = n + 1
                         /\ SubSeq(after.transactions_log, 1, n) = before.transactions_log
                         /\ after.transactions_log[n + 1][1] = "DEBIT "
                         /\ after = [before EXCEPT
                                !.balance = after.balance,
                                !.transactions_log = after.transactions_log]]_vars

\* a withdrawal of more than the balance has just been refused
WithdrawContractWitness ==
    /\ ret.op = "withdraw"
    /\ ret.args[1] > accounts[ret.self].balance
    /\ ret.val = "False"

\* C5: the counter starts at 328710100001 and advances by exactly one per
\* construction; a new account gets a number strictly greater than that of
\* every account constructed before it; no operation changes the number of
\* an account.
AccountNumbersIncreaseAndStay ==
    /\ account_number = FirstAccountNumber
    /\ [][/\ \A o \in Constructed : accounts'[o].acc_number = accounts[o].acc_number
          /\ IF ret'.op = "__init__"
             THEN /\ accounts'[ret'.self].acc_number = account_number
                  /\ account_number' = NumAdd(account_number, 1)
                  /\ NumLess(account_number, account_number')
                  /\ \A o \in Constructed :
                        NumLess(accounts[o].acc_number, accounts'[ret'.self].acc_number)
             ELSE account_number' = account_number]_vars

\* the second account has just been constructed
AccountNumbersWitness ==
    /\ ret.op = "__init__"
    /\ Cardinality(Constructed) = 2

\* C7: a < b, a > b, a <= b and a >= b return True exactly when the balances
\* stand in that order, and neither account changes (the call is the last
\* one made, so the accounts are as it left them): a result that is not True,
\* be it False or None, is taken as "not in that order".
ComparisonReturnsBalanceOrder ==
    ret.op \in {"__lt__", "__gt__", "__le__", "__ge__"}
        => LET a == accounts[ret.self].balance
               b == accounts[ret.args[1]].balance
           IN  (ret.val = "True") <=> (CASE ret.op = "__lt__" -> a < b
                                         [] ret.op = "__gt__" -> a > b
                                         [] ret.op = "__le__" -> a <= b
                                         [] ret.op = "__ge__" -> a >= b)

\* C8: in every record the signed amount is strictly positive for a CREDIT and
\* strictly negative for a DEBIT, and balance-after is balance-before plus the
\* signed amount.
RecordSignMatchesKind ==
    \A o \in Constructed :
        \A i \in DOMAIN accounts[o].transactions_log :
            LET txn == accounts[o].transactions_log[i]
            IN  /\ txn[1] = "CREDIT" => txn[4] > 0
                /\ txn[1] = "DEBIT " => txn[4] < 0
                /\ txn[5] = txn[3] + txn[4]

\* C9: the log is append-only: over every step the old log is a prefix of the
\* new one; a successful deposit or withdraw (direct, or through += or -=)
\* adds exactly one record at the end, every other operation adds none.
LogAppendOnly ==
    [][\A o \in Constructed :
          LET before == accounts[o].transactions_log
              after == accounts'[o].transactions_log
              grows ==
                  /\ ret'.self = o
                  /\ \/ ret'.op \in {"deposit", "withdraw"} /\ ret'.val = "True"
                     \/ ret'.op = "__iadd__" /\ ret'.args[1] > 0
                     \/ ret'.op = "__isub__" /\ ret'.args[1] <= accounts[o].balance
          IN  /\ IsPrefix(before, after)
              /\ Len(after) = Len(before) + (IF grows THEN 1 ELSE 0)]_vars

\* an iteration has just yielded the last record of a log of two
LogAppendOnlyWitness ==
    /\ ret.op = "__next__"
    /\ ret.exc = "None"
    /\ Len(accounts[ret.self].transactions_log) = 2
    /\ accounts[ret.self].pos = 2

(***************************************************************************)
(* Properties of iteration and of the passbook writer                      *)
(***************************************************************************)
\* C6: once the with statement has been left, whether its body completed or
\* raised, the file that __enter__ opened is closed.
FileClosedOnceScopeLeft == tw.state = "exited" => passbook.closed

\* C10: every iteration over an account yields each record that was in the
\* log when it began exactly once, in append order, and then ends, whatever
\* other iterations over the account do meanwhile.
IterationYieldsLogOnce ==
    \A l \in Loops :
        /\ loops[l].state = "running" => IsPrefix(loops[l].seen, loops[l].began)
        /\ loops[l].state = "done" => loops[l].seen = loops[l].began

====
